---- MODULE Spec2Model ----
(***************************************************************************)
(* Librian VM: the compiler (compiler.ts) that folds parsed nodes into     *)
(* instructions, and the virtual machine (vm.ts) that steps a stack of     *)
(* frames and returns one Output per nextOutput call.                      *)
(*                                                                         *)
(* Conventions.  JavaScript arrays are 0-based: programCounter keeps the   *)
(* source's 0-based value and instructions[programCounter] is written      *)
(* At(instructions, programCounter).  A string-or-null value is a string,  *)
(* with Null and Undefined as two reserved strings; an object-or-null      *)
(* reference is a record, with NullRef as the null reference.  Every       *)
(* instruction object carries its identity in the field id.                *)
(***************************************************************************)
EXTENDS Integers, Sequences, FiniteSets, TLC

\* ---------------------------------------------------------------- bounds
MaxCalls == 3        \* nextOutput calls made by the host in one behaviour
MaxDepth == 3        \* frames on the stack
MaxGenerated == 6    \* instruction objects created at run time
MaxOverlaps == 1     \* calls begun while another call is suspended
MaxNodes == 4        \* nodes handed to the compiler in CompileSpec

\* ------------------------------------------------------- JavaScript values
Null == "<null>"
Undefined == "<undefined>"
NullRef == [kind |-> "null"]

\* instructions[index] with a 0-based index.
At(seq, index) == seq[index + 1]

\* obj[field] of JavaScript: a property the object does not have reads as
\* undefined.
GetProp(obj, field) == IF field \in DOMAIN obj THEN obj[field] ELSE Undefined

\* A parameter declared "= null": an undefined argument takes the default.
DefaultNull(arg) == IF arg = Undefined THEN Null ELSE arg

\* array.splice(start, 0, ...items)
SpliceInsert(seq, start, items) ==
    SubSeq(seq, 1, start) \o items \o SubSeq(seq, start + 1, Len(seq))

\* array.splice(start, 1)
SpliceRemove(seq, start) ==
    SubSeq(seq, 1, start) \o SubSeq(seq, start + 2, Len(seq))

\* ------------------------------------------------------------ nodes (parser)
AsideNode(text) == [type |-> "aside", aside |-> text]
InsertedImageNode(text) == [type |-> "insertedImage", insertedImage |-> text]
RoleDialogNode(name, dialog) ==
    [type |-> "roleDialog", name |-> name, alias |-> "", effect |-> "",
     expression |-> "", dialog |-> dialog]
RoleExpressionNode(name, expression) ==
    [type |-> "roleExpression", name |-> name, alias |-> "", effect |-> "",
     expression |-> expression]
RoleOperationNode(roleName, target) ==
    [type |-> "roleOperation", roleName |-> roleName, operator |-> "+",
     target |-> target]
SceneNode(content) == [type |-> "scene", sceneOperator |-> "+", content |-> content]
FunctionCallingNode(function, originalText) ==
    [type |-> "functionCalling", function |-> function,
     originalText |-> originalText, parameterList |-> <<>>]
EmbeddedCodeNode(codeContent) ==
    [type |-> "embeddedCode", codeType |-> "js", codeContent |-> codeContent]
OptionNode(optionName, file, location) ==
    [type |-> "option", optionName |-> optionName, file |-> file,
     location |-> location]
JumpPointNode(label) == [type |-> "jumpPoint", jumpPoint |-> label]
CommentNode == [type |-> "comment"]

\* --------------------------------------------------- instructions (compiler.ts)
NodeInstruction(id, node, isDisposable) ==
    [id |-> id, itype |-> node.type, isDisposable |-> isDisposable, node |-> node]

CallInstruction(id, path, tag, isDisposable) ==
    [id |-> id, itype |-> "call", isDisposable |-> isDisposable,
     path |-> DefaultNull(path), tag |-> DefaultNull(tag)]

GotoInstruction(id, path, tag, isDisposable) ==
    [id |-> id, itype |-> "goto", isDisposable |-> isDisposable,
     path |-> DefaultNull(path), tag |-> DefaultNull(tag)]

AdvEndInstruction(id, isDisposable) ==
    [id |-> id, itype |-> "adv_end", isDisposable |-> isDisposable]

Option(name, pathOrCodeContent, tagOrCodeType) ==
    [name |-> name, pathOrCodeContent |-> DefaultNull(pathOrCodeContent),
     tagOrCodeType |-> DefaultNull(tagOrCodeType)]

OptionFromNode(node) ==
    Option(GetProp(node, "optionName"), GetProp(node, "file"),
           GetProp(node, "location"))

ChoiceInstruction(id, options, isDisposable, isEmbeddedCode) ==
    [id |-> id, itype |-> "choice", isDisposable |-> isDisposable,
     options |-> options, isEmbeddedCode |-> isEmbeddedCode]

ChoiceFromNodes(id, nodes, isDisposable) ==
    ChoiceInstruction(id, [i \in 1..Len(nodes) |-> OptionFromNode(nodes[i])],
                      isDisposable, FALSE)

\* A faulty variant of the forEach body: a comment does not end a run of
\* options.
CompileNodeCommentKeepsRun(acc, node, isDisposable, base) ==
    LET nid == base + Len(acc.instructions) + 1 IN
    CASE node.type = "option" -> [acc EXCEPT !.options = Append(@, node)]
      [] node.type = "comment" -> acc
      [] Len(acc.options) > 0 ->
           [instructions |-> acc.instructions
                \o <<ChoiceFromNodes(nid, acc.options, isDisposable),
                     NodeInstruction(nid + 1, node, isDisposable)>>,
            options |-> <<>>]
      [] OTHER ->
           [acc EXCEPT !.instructions =
               Append(@, NodeInstruction(nid, node, isDisposable))]

\* The body of the forEach in Compiler.compile: acc holds the instructions
\* emitted so far and the buffered option nodes; base + Len(instructions) + 1
\* is the identity of the next instruction object created.
CompileNode(acc, node, isDisposable, base) ==
    LET nid == base + Len(acc.instructions) + 1 IN
    IF Len(acc.options) > 0
    THEN CASE node.type = "option" ->
                [acc EXCEPT !.options = Append(@, node)]
           [] node.type = "comment" ->
                [instructions |-> Append(acc.instructions,
                                    ChoiceFromNodes(nid, acc.options, isDisposable)),
                 options |-> <<>>]
           [] OTHER ->
                [instructions |-> acc.instructions
                     \o <<ChoiceFromNodes(nid, acc.options, isDisposable),
                          NodeInstruction(nid + 1, node, isDisposable)>>,
                 options |-> <<>>]
    ELSE CASE node.type = "option" ->
                [acc EXCEPT !.options = Append(@, node)]
           [] node.type = "comment" -> acc
           [] OTHER ->
                [acc EXCEPT !.instructions =
                    Append(@, NodeInstruction(nid, node, isDisposable))]

RECURSIVE CompileLoop(_, _, _, _, _)
CompileLoop(nodes, index, acc, isDisposable, base) ==
    IF index > Len(nodes) THEN acc
    ELSE CompileLoop(nodes, index + 1,
                     CompileNode(acc, nodes[index], isDisposable, base),
                     isDisposable, base)

\* Compiler.compile(source, isDisposable); source is the parsed node array.
Compile(source, isDisposable, base) ==
    LET acc == CompileLoop(source, 1, [instructions |-> <<>>, options |-> <<>>],
                           isDisposable, base)
    IN IF Len(acc.options) > 0
       THEN Append(acc.instructions,
                   ChoiceFromNodes(base + Len(acc.instructions) + 1,
                                   acc.options, isDisposable))
       ELSE acc.instructions

\* ------------------------------------------------------------ Module, Frame
Module(instructions, path) == [instructions |-> instructions, path |-> path]

\* new Frame(module).  fetchedOnce and fetchedAgain are history: the
\* instructions (identity and disposability) this frame has fetched at least
\* once, and more than once.
Frame(module) ==
    [modulePath |-> module.path,
     instructions |-> module.instructions,
     programCounter |-> 0,
     originalInstructions |-> module.instructions,
     fetchedOnce |-> {},
     fetchedAgain |-> {}]

\* A faulty variant of fromOther: the new frame is built from the working list
\* of the other frame instead of its pristine list.
FromOtherWorkingList(other) == Frame(Module(other.instructions, other.modulePath))

FromOther(other) == Frame(Module(other.originalInstructions, other.modulePath))

IsJumpPoint(instruction, tag) ==
    /\ instruction.itype = "jumpPoint"
    /\ GetProp(instruction.node, "jumpPoint") = tag

\* The for loop of Frame.jump: the index found, or the length when the loop
\* runs off the end.
RECURSIVE JumpScan(_, _, _)
JumpScan(instructions, tag, index) ==
    IF index >= Len(instructions) THEN Len(instructions)
    ELSE IF IsJumpPoint(At(instructions, index), tag) THEN index
    ELSE JumpScan(instructions, tag, index + 1)

\* A scan that keeps the last match instead of returning at the first.
RECURSIVE JumpScanLast(_, _, _)
JumpScanLast(instructions, tag, index) ==
    IF index >= Len(instructions) THEN Len(instructions)
    ELSE LET rest == JumpScanLast(instructions, tag, index + 1) IN
         IF rest < Len(instructions) THEN rest
         ELSE IF IsJumpPoint(At(instructions, index), tag) THEN index
         ELSE Len(instructions)

JumpLast(frame, tag) ==
    IF tag # Null
    THEN LET index == JumpScanLast(frame.instructions, tag, 0) IN
         IF index < Len(frame.instructions)
         THEN [thrown |-> FALSE, frame |-> [frame EXCEPT !.programCounter = index]]
         ELSE [thrown |-> TRUE, frame |-> frame]
    ELSE [thrown |-> FALSE, frame |-> [frame EXCEPT !.programCounter = 0]]

\* Frame.jump(tag): the frame afterwards, and whether VmError was thrown.
Jump(frame, tag) ==
    IF tag # Null
    THEN LET index == JumpScan(frame.instructions, tag, 0) IN
         IF index < Len(frame.instructions)
         THEN [thrown |-> FALSE, frame |-> [frame EXCEPT !.programCounter = index]]
         ELSE [thrown |-> TRUE, frame |-> frame]
    ELSE [thrown |-> FALSE, frame |-> [frame EXCEPT !.programCounter = 0]]

\* A faulty insertion: the instructions are appended to the working list.
InsertInstructionsAtEnd(frame, instructions) ==
    [frame EXCEPT !.instructions = @ \o instructions]

InsertInstructions(frame, instructions) ==
    IF Len(instructions) > 0
    THEN [frame EXCEPT !.instructions =
            SpliceInsert(@, frame.programCounter, instructions)]
    ELSE frame

\* A faulty end test: the last instruction counts as the end.
IsEndedAtLast(frame) == frame.programCounter >= Len(frame.instructions) - 1

IsEnded(frame) == frame.programCounter >= Len(frame.instructions)

GetInstruction(frame) == At(frame.instructions, frame.programCounter)

\* The history update made when an instruction is fetched.
FetchRecord(instruction) ==
    [id |-> instruction.id, isDisposable |-> instruction.isDisposable]

Fetched(frame, instruction) ==
    [frame EXCEPT
       !.fetchedOnce = @ \cup {FetchRecord(instruction)},
       !.fetchedAgain = IF FetchRecord(instruction) \in frame.fetchedOnce
                        THEN @ \cup {FetchRecord(instruction)} ELSE @]

\* A faulty advance: the program counter moves on after a removal as well.
NextInstructionRemovesAndMoves(frame) ==
    LET instruction == GetInstruction(frame) IN
    Fetched(IF instruction.isDisposable
            THEN [frame EXCEPT !.instructions =
                    SpliceRemove(@, frame.programCounter),
                  !.programCounter = @ + 1]
            ELSE [frame EXCEPT !.programCounter = @ + 1],
            instruction)
\* An advance that never removes: the program counter always moves on.
NextInstructionKeep(frame) ==
    Fetched([frame EXCEPT !.programCounter = @ + 1], GetInstruction(frame))

NextInstruction(frame) ==
    LET instruction == GetInstruction(frame) IN
    Fetched(IF instruction.isDisposable
            THEN [frame EXCEPT !.instructions =
                    SpliceRemove(@, frame.programCounter)]
            ELSE [frame EXCEPT !.programCounter = @ + 1],
            instruction)

\* --------------------------------------------------------------- Output
Aside(node) == [kind |-> "Aside", aside |-> GetProp(node, "aside")]
RoleDialog(node) ==
    [kind |-> "RoleDialog", name |-> GetProp(node, "name"),
     alias |-> GetProp(node, "alias"), effect |-> GetProp(node, "effect"),
     expression |-> GetProp(node, "expression"),
     dialog |-> GetProp(node, "dialog")]
InsertedImage(node) ==
    [kind |-> "InsertedImage", insertedImage |-> GetProp(node, "insertedImage")]
Options(options) ==
    [kind |-> "Options",
     optionNames |-> [i \in 1..Len(options) |-> options[i].name]]
FunctionCalling(node) ==
    [originalText |-> GetProp(node, "originalText"),
     functionName |-> GetProp(node, "function")]
RoleOperation(node) ==
    [kind |-> "RoleOperation", roleName |-> GetProp(node, "roleName"),
     operator |-> GetProp(node, "operator"), target |-> GetProp(node, "target")]
RoleExpression(node) ==
    [kind |-> "RoleExpression", name |-> GetProp(node, "name"),
     alias |-> GetProp(node, "alias"), effect |-> GetProp(node, "effect"),
     expression |-> GetProp(node, "expression")]
Scene(node) ==
    [kind |-> "Scene", sceneOperator |-> GetProp(node, "sceneOperator"),
     content |-> GetProp(node, "content")]

\* new Output(); functionCallings is the Map as a set of records, at most one
\* per functionName.
NewOutput ==
    [pausePoint |-> NullRef, functionCallings |-> {}, roleOperation |-> NullRef,
     roleExpression |-> NullRef, scene |-> NullRef]

\* A faulty Map.set: an entry that exists is kept.
AddFunctionCallingKeepsFirst(output, calling) ==
    [output EXCEPT !.functionCallings =
        IF \E c \in @ : c.functionName = calling.functionName
        THEN @ ELSE @ \cup {calling}]

AddFunctionCalling(output, calling) ==
    [output EXCEPT !.functionCallings =
        {c \in @ : c.functionName # calling.functionName} \cup {calling}]

\* --------------------------------------------- what a nextOutput call yields
ReturnedNull == [kind |-> "null"]
ReturnedOutput(o) == [kind |-> "output", output |-> o]
Thrown(error) == [kind |-> "error", error |-> error]

\* new Input() with its optionIndex, and a call made without an argument.
\* indexIsNull stands for an optionIndex of null or undefined.
NoInput == [present |-> FALSE, indexIsNull |-> TRUE, optionIndex |-> 0]
InputNullIndex == [present |-> TRUE, indexIsNull |-> TRUE, optionIndex |-> 0]
InputIndex(i) == [present |-> TRUE, indexIsNull |-> FALSE, optionIndex |-> i]

\* this.choice.options[input.optionIndex]: undefined outside the array.
OptionAt(options, index) ==
    IF index >= 0 /\ index < Len(options) THEN At(options, index) ELSE NullRef

\* ------------------------------------------- embedded code (the evaluator)
\* codeContent is the sequence of calls its evaluation makes to the five
\* injected callables; each of them appends to generatedInstructions.
FusionCode(source) == [fn |-> "fusion", source |-> source]
GotoCode(path, tag) == [fn |-> "goto", path |-> path, tag |-> tag]
CallCode(path, tag) == [fn |-> "call", path |-> path, tag |-> tag]
ChoiceCode(tuples) == [fn |-> "choice", options |-> tuples]
AdvEndCode == [fn |-> "adv_end"]

Callable(code, generatedInstructions, base) ==
    LET nid == base + Len(generatedInstructions) + 1 IN
    CASE code.fn = "fusion" ->
           generatedInstructions
             \o Compile(code.source, TRUE, base + Len(generatedInstructions))
      [] code.fn = "goto" ->
           Append(generatedInstructions,
                  GotoInstruction(nid, DefaultNull(code.path),
                                  DefaultNull(code.tag), TRUE))
      [] code.fn = "choice" ->
           Append(generatedInstructions,
                  ChoiceInstruction(nid,
                     [i \in 1..Len(code.options) |->
                        Option(code.options[i][1], code.options[i][2],
                               code.options[i][3])],
                     TRUE, FALSE))
      [] code.fn = "adv_end" ->
           Append(generatedInstructions, AdvEndInstruction(nid, TRUE))
      [] code.fn = "call" ->
           Append(generatedInstructions,
                  CallInstruction(nid, DefaultNull(code.path),
                                  DefaultNull(code.tag), TRUE))

RECURSIVE Evaluate(_, _, _, _)
Evaluate(codeContent, index, generatedInstructions, base) ==
    IF index > Len(codeContent) THEN generatedInstructions
    ELSE Evaluate(codeContent, index + 1,
                  Callable(codeContent[index], generatedInstructions, base), base)

\* ------------------------------------------------- the host: Environment
\* The host's notion of module identity: "m" is an alias of the start module.
Canon(path) == IF path = "m" THEN "main" ELSE path

ModulePathEquals(p1, p2) == Canon(p1) = Canon(p2)

\* ------------------------------------------------------------------ parser
\* Parser.statementGroup: the type of each statement rule, in rule order.
StatementTypes ==
    <<"functionCalling", "embeddedCode", "characterOperation", "insertedImage",
      "characterDialog", "characterDialog", "characterExpression", "scene",
      "option", "comment", "aside", "jumpPoint">>

\* A script line, by what the rule patterns make of it: the one rule whose
\* pattern matches it (0 when none does) and that pattern's named groups.
MatchedLine(rule, groups) == [rule |-> rule, groups |-> groups, text |-> ""]
UnmatchedLine(text) == [rule |-> 0, groups |-> <<>>, text |-> text]

\* parseLines for one line: the groups of the matching rule plus its type, or
\* an aside of the whole line when no rule matches.
ParseLine(line) ==
    IF line.rule = 0
    THEN [type |-> "aside", aside |-> line.text]
    ELSE ("type" :> StatementTypes[line.rule]) @@ line.groups

\* Parser.parse
Parse(lines) == [i \in 1..Len(lines) |-> ParseLine(lines[i])]

\* The script
\*     : hi
\*     Alice「hello」
\*     the end
ParsedScript ==
    <<MatchedLine(11, [aside |-> "hi"]),
      MatchedLine(5, [name |-> "Alice", dialog |-> "hello"]),
      UnmatchedLine("the end")>>

\* ------------------------------------------------------------ the programs
\* Each program is a start module at path "main" and, for some, a second
\* module at path "other".  Start-module instructions have identities 1..n,
\* those of the second module follow, and run-time instructions follow those.
ProgramNames ==
    {"S1", "S2", "S3", "S4", "S5", "Effects", "Loop", "Shadow", "EmbChoice",
     "CrossCall", "Missing", "Unknown", "Fresh", "Disposable", "End", "Parsed",
     "Pauses", "Return", "Retry", "Race"}

StartInstructions(p) ==
    CASE p = "S1" -> Compile(<<AsideNode("hi"), AsideNode("bye")>>, FALSE, 0)
      [] p = "S2" ->
           Compile(<<OptionNode("A", "m", "t1"), OptionNode("B", "m", "t2"),
                     JumpPointNode("t1"), AsideNode("a1"),
                     JumpPointNode("t2"), AsideNode("a2")>>, FALSE, 0)
      [] p = "S3" -> <<GotoInstruction(1, "other", Null, FALSE)>>
      [] p = "S4" ->
           <<CallInstruction(1, Null, "t", FALSE),
             NodeInstruction(2, AsideNode("never"), FALSE),
             NodeInstruction(3, JumpPointNode("t"), FALSE),
             AdvEndInstruction(4, FALSE)>>
      [] p = "S5" ->
           Compile(<<EmbeddedCodeNode(
                       <<FusionCode(<<AsideNode("a"), AsideNode("b")>>)>>)>>,
                   FALSE, 0)
      [] p = "Effects" ->
           Compile(<<SceneNode("hall"), SceneNode("room"),
                     FunctionCallingNode("f", "f 0"),
                     FunctionCallingNode("g", "g 0"),
                     FunctionCallingNode("f", "f 1"),
                     RoleDialogNode("r", "hello"),
                     FunctionCallingNode("f", "f 2"),
                     InsertedImageNode("img"),
                     RoleExpressionNode("r", "smile"),
                     RoleExpressionNode("r", "frown"),
                     RoleOperationNode("r", "q"),
                     RoleOperationNode("s", "q"),
                     FunctionCallingNode("f", "f 3")>>, FALSE, 0)
      [] p = "Loop" ->
           Compile(<<JumpPointNode("L"),
                     EmbeddedCodeNode(<<FusionCode(<<AsideNode("x")>>)>>),
                     AsideNode("y")>>, FALSE, 0)
             \o <<GotoInstruction(4, Null, "L", FALSE)>>
      [] p = "Shadow" ->
           Compile(<<EmbeddedCodeNode(
                       <<GotoCode(Undefined, "T"),
                         FusionCode(<<JumpPointNode("T"), AsideNode("z")>>)>>),
                     AsideNode("a"), JumpPointNode("T"), AsideNode("b"),
                     JumpPointNode("T")>>, FALSE, 0)
      [] p = "EmbChoice" ->
           Compile(<<AsideNode("intro"),
                     EmbeddedCodeNode(
                       <<ChoiceCode(<<<<"X", "other", "t">>, <<"Y", "", "u">>>>),
                         AdvEndCode>>),
                     AsideNode("skipped")>>, FALSE, 0)
      [] p = "CrossCall" ->
           Compile(<<EmbeddedCodeNode(<<CallCode("other", "t")>>),
                     AsideNode("back"),
                     EmbeddedCodeNode(<<GotoCode("m", Undefined)>>)>>, FALSE, 0)
      [] p = "Missing" ->
           Compile(<<EmbeddedCodeNode(<<CallCode(Undefined, "nowhere")>>),
                     AsideNode("a"),
                     EmbeddedCodeNode(<<GotoCode("ghost", "t")>>)>>, FALSE, 0)
      [] p = "Unknown" ->
           Compile(<<[type |-> "weird"], AsideNode("a")>>, FALSE, 0)
      [] p = "Parsed" -> Compile(Parse(ParsedScript), FALSE, 0)
      [] p = "Return" ->
           Compile(<<EmbeddedCodeNode(<<CallCode("other", "t")>>),
                     AsideNode("back")>>, FALSE, 0)
      [] p = "Retry" ->
           Compile(<<EmbeddedCodeNode(<<GotoCode("m", "c")>>),
                     JumpPointNode("c"), OptionNode("X", "m", "c")>>, FALSE, 0)
      [] p = "Race" ->
           Compile(<<EmbeddedCodeNode(<<GotoCode("other", Undefined)>>),
                     AsideNode("m1")>>, FALSE, 0)
      [] p = "Pauses" ->
           Compile(<<RoleDialogNode("r", "one"), InsertedImageNode("two"),
                     AsideNode("three")>>, FALSE, 0)
      [] p = "Fresh" ->
           Compile(<<EmbeddedCodeNode(
                       <<CallCode("m", "t"), FusionCode(<<AsideNode("z")>>)>>),
                     JumpPointNode("t"), AsideNode("a")>>, FALSE, 0)
      [] p = "Disposable" ->
           Compile(<<JumpPointNode("L"), FunctionCallingNode("g", "g"),
                     AsideNode("p"),
                     EmbeddedCodeNode(<<GotoCode("", "L")>>),
                     AsideNode("q")>>, TRUE, 0)
      [] p = "End" ->
           Compile(<<AsideNode("a"), EmbeddedCodeNode(<<AdvEndCode>>),
                     AsideNode("never")>>, FALSE, 0)

OtherInstructions(p) ==
    LET base == Len(StartInstructions(p)) IN
    CASE p \in {"S3", "Race"} -> Compile(<<AsideNode("x")>>, FALSE, base)
      [] p \in {"CrossCall", "EmbChoice"} ->
           Compile(<<AsideNode("o1"), JumpPointNode("t"), AsideNode("o2")>>,
                   FALSE, base)
      [] p = "Return" ->
           Compile(<<AsideNode("o1"),
                     EmbeddedCodeNode(<<GotoCode(Undefined, "fin")>>),
                     JumpPointNode("t"), OptionNode("X", "other", "t"),
                     AsideNode("after"), JumpPointNode("fin")>>, FALSE, base)
      [] OTHER -> <<>>

\* The paths the host can load, and the module it loads for each.
Loadable(p) ==
    {"main"} \cup (IF OtherInstructions(p) # <<>> THEN {"other"} ELSE {})

LoadedModule(p, targetModulePath) ==
    IF Canon(targetModulePath) = "main"
    THEN Module(StartInstructions(p), "main")
    ELSE Module(OtherInstructions(p), "other")

\* The identity of the first instruction object created at run time.
IdBase(p) == Len(StartInstructions(p)) + Len(OtherInstructions(p))

\* ------------------------------------------------------------------ state
VARIABLES
    prog,          \* the program the VM was constructed with
    stack,         \* VM.stack, bottom first
    choice,        \* VM.choice
    pc,            \* where the nextOutput call in progress stands
    output,        \* the Output under construction in that call
    pending,       \* the call/goto instruction suspended at an await
    generated,     \* instruction objects created at run time so far
    inputs,        \* history: the input of every nextOutput call made
    results,       \* history: what every finished nextOutput call yielded
    lastExecuted,  \* history: the instruction dispatched most recently
    callTrace,     \* history: the instructions dispatched in the latest call
    issuer,        \* the frame "currentFrame" of the call suspended at an await
    parked,        \* a second call in flight: its position, Output and await
    overlaps,      \* history: calls begun while another call was suspended
    compilation    \* CompileSpec: one Compiler.compile call

vars == <<prog, stack, choice, pc, output, pending, generated, inputs, results,
          lastExecuted, callTrace, issuer, parked, overlaps, compilation>>

vmVars == <<prog, stack, choice, pc, output, pending, generated, inputs,
            results, lastExecuted, callTrace, issuer, parked, overlaps>>

Top(stk) == stk[Len(stk)]
Pop(stk) == SubSeq(stk, 1, Len(stk) - 1)
ReplaceTop(stk, frame) == [stk EXCEPT ![Len(stk)] = frame]

\* A faulty variant of emptyStack that drops the top frame only.
EmptyStackTopOnly(stk) == Pop(stk)

\* VM.emptyStack: this.stack.splice(0)
EmptyStack(stk) == SubSeq(stk, 1, 0)

NoCompilation ==
    [source |-> <<>>, isDisposable |-> FALSE, done |-> TRUE,
     instructions |-> <<>>]

\* new VM(startModule, compiler, env)
Init ==
    /\ prog \in ProgramNames
    /\ stack = <<Frame(Module(StartInstructions(prog), "main"))>>
    /\ choice = NullRef
    /\ pc = "idle"
    /\ output = NullRef
    /\ pending = NullRef
    /\ generated = 0
    /\ inputs = <<>>
    /\ results = <<>>
    /\ lastExecuted = NullRef
    /\ callTrace = <<>>
    /\ issuer = NullRef
    /\ parked = NullRef
    /\ overlaps = 0
    /\ compilation = NoCompilation

\* The inputs a host passes to nextOutput.
Inputs == {NoInput, InputNullIndex} \cup {InputIndex(i) : i \in -1..2}

\* ------------------------------------------------- frames held across awaits
\* "const currentFrame = this.getFrame()" is a reference a suspended call
\* keeps: the frame it names is the frame at a position of the stack for as
\* long as that frame is on the stack, and an object of its own afterwards.
Captured == [alive |-> TRUE, pos |-> Len(stack), frame |-> NullRef]

HeldFrame(held) == IF held.alive THEN stack[held.pos] ELSE held.frame

\* The reference after a step to the stack stack': the frame has left the stack
\* when the stack became shorter than its position, or when it was the top
\* frame and the step replaced the top frame.
TrackHeld(held, replaced) ==
    IF held = NullRef \/ ~held.alive THEN held
    ELSE IF held.pos <= Len(stack') /\ ~(replaced /\ held.pos = Len(stack))
    THEN held
    ELSE [alive |-> FALSE, pos |-> 0,
          frame |-> IF held.pos = Len(stack) /\ pc = "running"
                       /\ ~IsEnded(stack[held.pos])
                    THEN NextInstruction(stack[held.pos])
                    ELSE stack[held.pos]]

\* What a step of the running call means for the rest: the frame it holds
\* from now on, the frame the other call in flight holds, and no new overlap.
Others(held, replaced) ==
    /\ issuer' = held
    /\ parked' = IF parked = NullRef THEN parked
                 ELSE [parked EXCEPT !.issuer = TrackHeld(@, replaced)]
    /\ overlaps' = overlaps

\* ------------------------------------------------ nextOutput: before the loop
\* new CallInstruction(selectedOption.path, selectedOption.tag, true)
SelectedCall(id, selectedOption) ==
    CallInstruction(id, GetProp(selectedOption, "path"),
                    GetProp(selectedOption, "tag"), TRUE)

\* The first do-while of nextOutput: ended frames are popped off the top.
RECURSIVE PopEnded(_)
PopEnded(stk) ==
    IF stk = <<>> THEN stk
    ELSE IF IsEnded(Top(stk)) THEN PopEnded(Pop(stk))
    ELSE stk

\* A faulty variant of the input checks: a missing input is let through.
InputErrorMissingPasses(input) ==
    IF choice = NullRef \/ stack = <<>> THEN "none"
    ELSE IF ~input.present THEN "none"
    ELSE IF input.indexIsNull THEN "NullOptionIndex"
    ELSE IF OptionAt(choice.options, input.optionIndex) = NullRef
         THEN "OptionIndexOutOfRange"
    ELSE "none"

\* The error, if any, thrown while a pending choice is consumed.
InputError(input) ==
    IF choice = NullRef \/ stack = <<>> THEN "none"
    ELSE IF ~input.present THEN "MissingInput"
    ELSE IF input.indexIsNull THEN "NullOptionIndex"
    ELSE IF OptionAt(choice.options, input.optionIndex) = NullRef
         THEN "OptionIndexOutOfRange"
    ELSE "none"

Return(value) ==
    /\ results' = Append(results, value)
    /\ pc' = "idle"
    /\ output' = NullRef
    /\ pending' = NullRef

\* A faulty order: the pending choice is dropped before the input is checked.
NextOutputClearsFirst(input) ==
    /\ pc = "idle"
    /\ Len(inputs) < MaxCalls
    /\ inputs' = Append(inputs, input)
    /\ callTrace' = <<>>
    /\ UNCHANGED <<prog, lastExecuted, compilation>>
    /\ IF choice # NullRef /\ stack = <<>>
       THEN /\ Return(ReturnedNull)
            /\ UNCHANGED <<stack, choice, generated>>
       ELSE IF InputError(input) # "none"
       THEN /\ Return(Thrown(InputError(input)))
            /\ choice' = NullRef
            /\ UNCHANGED <<stack, generated>>
       ELSE LET selecting == choice # NullRef
                inserted ==
                  IF selecting
                  THEN ReplaceTop(stack, InsertInstructions(Top(stack),
                         <<SelectedCall(IdBase(prog) + generated + 1,
                             OptionAt(choice.options, input.optionIndex))>>))
                  ELSE stack
                popped == PopEnded(inserted)
            IN /\ selecting => generated < MaxGenerated
               /\ generated' = IF selecting THEN generated + 1 ELSE generated
               /\ choice' = NullRef
               /\ stack' = popped
               /\ IF popped = <<>>
                  THEN Return(ReturnedNull)
                  ELSE /\ pc' = "running"
                       /\ output' = NewOutput
                       /\ UNCHANGED <<results, pending>>
    /\ Others(NullRef, FALSE)
\* A faulty entry: an ended top frame is popped once ("if" for the do-while
\* of lines 208-218) and the call returns null over the frames that remain.
NextOutputNullOnEnded(input) ==
    /\ pc = "idle"
    /\ Len(inputs) < MaxCalls
    /\ inputs' = Append(inputs, input)
    /\ callTrace' = <<>>
    /\ UNCHANGED <<prog, lastExecuted, compilation>>
    /\ IF choice # NullRef /\ stack = <<>>
       THEN /\ Return(ReturnedNull)
            /\ UNCHANGED <<stack, choice, generated>>
       ELSE IF InputError(input) # "none"
       THEN /\ Return(Thrown(InputError(input)))
            /\ UNCHANGED <<stack, choice, generated>>
       ELSE LET selecting == choice # NullRef
                inserted ==
                  IF selecting
                  THEN ReplaceTop(stack, InsertInstructions(Top(stack),
                         <<SelectedCall(IdBase(prog) + generated + 1,
                             OptionAt(choice.options, input.optionIndex))>>))
                  ELSE stack
                ended == inserted # <<>> /\ IsEnded(Top(inserted))
            IN /\ selecting => generated < MaxGenerated
               /\ generated' = IF selecting THEN generated + 1 ELSE generated
               /\ choice' = NullRef
               /\ stack' = IF ended THEN Pop(inserted) ELSE inserted
               /\ IF inserted = <<>> \/ ended
                  THEN Return(ReturnedNull)
                  ELSE /\ pc' = "running"
                       /\ output' = NewOutput
                       /\ UNCHANGED <<results, pending>>
    /\ Others(NullRef, FALSE)
\* nextOutput(input), up to the point where the instruction loop is entered.
NextOutput(input) ==
    /\ pc = "idle"
    /\ Len(inputs) < MaxCalls
    /\ inputs' = Append(inputs, input)
    /\ callTrace' = <<>>
    /\ UNCHANGED <<prog, lastExecuted, compilation>>
    /\ IF choice # NullRef /\ stack = <<>>
       THEN /\ Return(ReturnedNull)
            /\ UNCHANGED <<stack, choice, generated>>
       ELSE IF InputError(input) # "none"
       THEN /\ Return(Thrown(InputError(input)))
            /\ UNCHANGED <<stack, choice, generated>>
       ELSE LET selecting == choice # NullRef
                inserted ==
                  IF selecting
                  THEN ReplaceTop(stack, InsertInstructions(Top(stack),
                         <<SelectedCall(IdBase(prog) + generated + 1,
                             OptionAt(choice.options, input.optionIndex))>>))
                  ELSE stack
                popped == PopEnded(inserted)
            IN /\ selecting => generated < MaxGenerated
               /\ generated' = IF selecting THEN generated + 1 ELSE generated
               /\ choice' = NullRef
               /\ stack' = popped
               /\ IF popped = <<>>
                  THEN Return(ReturnedNull)
                  ELSE /\ pc' = "running"
                       /\ output' = NewOutput
                       /\ UNCHANGED <<results, pending>>
    /\ Others(NullRef, FALSE)

\* ------------------------------------------- nextOutput: the instruction loop
Fetchable == pc = "running" /\ stack # <<>> /\ ~IsEnded(Top(stack))
Current == GetInstruction(Top(stack))
\* A faulty order: the instruction is dispatched before the frame advances.
NotAdvanced == stack

\* the stack once currentFrame.nextInstruction() has run
Advanced == ReplaceTop(stack, NextInstruction(Top(stack)))

\* A faulty variant of the loop condition: the loop is left after one pass.
ReturnAfterOnePass(out) == Return(ReturnedOutput(out))

\* A faulty variant of the loop condition: the loop goes on after a pause point
\* was set.
LoopIgnoresPause(out) ==
    /\ pc' = "running"
    /\ output' = out
    /\ pending' = NullRef
    /\ UNCHANGED results

\* "while (output.pausePoint === null)" followed by "return output".
LoopOrReturn(out) ==
    IF out.pausePoint # NullRef
    THEN Return(ReturnedOutput(out))
    ELSE /\ pc' = "running"
         /\ output' = out
         /\ pending' = NullRef
         /\ UNCHANGED results

Throw(error) == Return(Thrown(error))

\* if (this.isStackEmpty()) break;  ...  return output;
LoopBreak ==
    /\ pc = "running"
    /\ stack = <<>>
    /\ Return(ReturnedOutput(output))
    /\ UNCHANGED <<prog, stack, choice, generated, inputs, lastExecuted,
                   callTrace, compilation>>
    /\ Others(NullRef, FALSE)

\* if (currentFrame.isEnded()) { this.stack.pop(); continue; }
LoopPop ==
    /\ pc = "running"
    /\ stack # <<>>
    /\ IsEnded(Top(stack))
    /\ stack' = Pop(stack)
    /\ UNCHANGED <<prog, choice, pc, output, pending, generated, inputs,
                   results, lastExecuted, callTrace, compilation>>
    /\ Others(NullRef, FALSE)

PauseTypes == {"aside", "insertedImage", "roleDialog"}
EffectTypes == {"functionCalling", "roleOperation", "roleExpression", "scene",
                "jumpPoint"}
KnownTypes == PauseTypes \cup EffectTypes
                 \cup {"embeddedCode", "choice", "call", "goto", "adv_end"}

ExecPause ==
    /\ Fetchable
    /\ Current.itype \in PauseTypes
    /\ stack' = Advanced
    /\ lastExecuted' = Current
    /\ callTrace' = Append(callTrace, Current)
    /\ LoopOrReturn([output EXCEPT !.pausePoint =
            CASE Current.itype = "aside" -> Aside(Current.node)
              [] Current.itype = "insertedImage" -> InsertedImage(Current.node)
              [] Current.itype = "roleDialog" -> RoleDialog(Current.node)])
    /\ UNCHANGED <<prog, choice, generated, inputs, compilation>>
    /\ Others(NullRef, FALSE)

ExecEffect ==
    /\ Fetchable
    /\ Current.itype \in EffectTypes
    /\ stack' = Advanced
    /\ lastExecuted' = Current
    /\ callTrace' = Append(callTrace, Current)
    /\ LoopOrReturn(
         CASE Current.itype = "functionCalling" ->
                AddFunctionCalling(output, FunctionCalling(Current.node))
           [] Current.itype = "roleOperation" ->
                [output EXCEPT !.roleOperation = RoleOperation(Current.node)]
           [] Current.itype = "roleExpression" ->
                [output EXCEPT !.roleExpression = RoleExpression(Current.node)]
           [] Current.itype = "scene" ->
                [output EXCEPT !.scene = Scene(Current.node)]
           [] Current.itype = "jumpPoint" -> output)
    /\ UNCHANGED <<prog, choice, generated, inputs, compilation>>
    /\ Others(NullRef, FALSE)

ExecEmbeddedCode ==
    /\ Fetchable
    /\ Current.itype = "embeddedCode"
    /\ LET generatedInstructions ==
             Evaluate(GetProp(Current.node, "codeContent"), 1, <<>>,
                      IdBase(prog) + generated)
       IN /\ generated + Len(generatedInstructions) <= MaxGenerated
          /\ generated' = generated + Len(generatedInstructions)
          /\ stack' = ReplaceTop(Advanced,
                        InsertInstructions(Top(Advanced), generatedInstructions))
    /\ lastExecuted' = Current
    /\ callTrace' = Append(callTrace, Current)
    /\ LoopOrReturn(output)
    /\ UNCHANGED <<prog, choice, inputs, compilation>>
    /\ Others(NullRef, FALSE)

\* A faulty choice case: the instruction is not kept as the pending choice.
ExecChoiceForgets ==
    /\ Fetchable
    /\ Current.itype = "choice"
    /\ stack' = Advanced
    /\ lastExecuted' = Current
    /\ callTrace' = Append(callTrace, Current)
    /\ LoopOrReturn([output EXCEPT !.pausePoint = Options(Current.options)])
    /\ UNCHANGED <<prog, choice, generated, inputs, compilation>>
    /\ Others(NullRef, FALSE)

ExecChoice ==
    /\ Fetchable
    /\ Current.itype = "choice"
    /\ stack' = Advanced
    /\ choice' = Current
    /\ lastExecuted' = Current
    /\ callTrace' = Append(callTrace, Current)
    /\ LoopOrReturn([output EXCEPT !.pausePoint = Options(Current.options)])
    /\ UNCHANGED <<prog, generated, inputs, compilation>>
    /\ Others(NullRef, FALSE)

ExecAdvEnd ==
    /\ Fetchable
    /\ Current.itype = "adv_end"
    /\ stack' = EmptyStack(Advanced)
    /\ lastExecuted' = Current
    /\ callTrace' = Append(callTrace, Current)
    /\ LoopOrReturn(output)
    /\ UNCHANGED <<prog, choice, generated, inputs, compilation>>
    /\ Others(NullRef, FALSE)

ExecUnknown ==
    /\ Fetchable
    /\ Current.itype \notin KnownTypes
    /\ stack' = Advanced
    /\ lastExecuted' = Current
    /\ callTrace' = Append(callTrace, Current)
    /\ Throw("UnknownInstruction")
    /\ UNCHANGED <<prog, choice, generated, inputs, compilation>>
    /\ Others(NullRef, FALSE)

\* ------------------------------------------------------------ call and goto
\* A faulty test: the host is asked about every call and goto.
AsksHostAlways(instruction) == instruction.itype \in {"call", "goto"}

\* instruction.path != null && instruction.path.length > 0: the host is asked.
AsksHost(instruction) == instruction.path # Null /\ instruction.path # ""

\* A faulty same-module call: the target frame takes the caller's place.
CallSameModuleReplaces(stk, instruction) ==
    LET jumped == Jump(FromOther(Top(stk)), instruction.tag)
    IN [stack |-> ReplaceTop(stk, jumped.frame), thrown |-> jumped.thrown]

\* targetFrame = Frame.fromOther(currentFrame); push; targetFrame.jump(tag)
CallSameModule(stk, instruction) ==
    LET jumped == Jump(FromOther(Top(stk)), instruction.tag)
    IN [stack |-> Append(stk, jumped.frame), thrown |-> jumped.thrown]

\* targetFrame = new Frame(loaded module); push; targetFrame.jump(tag)
CallLoaded(stk, instruction, module) ==
    LET jumped == Jump(Frame(module), instruction.tag)
    IN [stack |-> Append(stk, jumped.frame), thrown |-> jumped.thrown]

\* targetFrame = currentFrame; targetFrame.jump(tag)
GotoSameModule(stk, instruction) ==
    LET jumped == Jump(Top(stk), instruction.tag)
    IN [stack |-> ReplaceTop(stk, jumped.frame), thrown |-> jumped.thrown]

\* A faulty cross-module goto: the target frame is pushed over the issuing one.
GotoLoadedPushesOver(stk, instruction, module) ==
    LET jumped == Jump(Frame(module), instruction.tag)
    IN [stack |-> Append(stk, jumped.frame), thrown |-> jumped.thrown]

\* targetFrame = new Frame(loaded module); pop; push; targetFrame.jump(tag)
GotoLoaded(stk, instruction, module) ==
    LET jumped == Jump(Frame(module), instruction.tag)
    IN [stack |-> Append(Pop(stk), jumped.frame), thrown |-> jumped.thrown]

\* The same two after "await modulePathEquals" answered true: currentFrame is
\* the frame the call held across the await, on the stack or not.
CallSameModuleHeld(stk, held, instruction) ==
    LET jumped == Jump(FromOther(HeldFrame(held)), instruction.tag)
    IN [stack |-> Append(stk, jumped.frame), thrown |-> jumped.thrown]

GotoSameModuleHeld(stk, held, instruction) ==
    LET jumped == Jump(HeldFrame(held), instruction.tag)
    IN [stack |-> IF held.alive THEN [stk EXCEPT ![held.pos] = jumped.frame]
                  ELSE stk,
        thrown |-> jumped.thrown]

SameModule(stk, held, instruction) ==
    IF instruction.itype = "call" THEN CallSameModuleHeld(stk, held, instruction)
    ELSE GotoSameModuleHeld(stk, held, instruction)

Loaded(stk, instruction, module) ==
    IF instruction.itype = "call" THEN CallLoaded(stk, instruction, module)
    ELSE GotoLoaded(stk, instruction, module)

\* The stack after a call or goto took effect, then the throw of jump or the
\* loop condition.
Landed(effect) ==
    /\ stack' = effect.stack
    /\ IF effect.thrown THEN Throw("JumpNotFound") ELSE LoopOrReturn(output)

Suspend(at) ==
    /\ pc' = at
    /\ UNCHANGED <<output, results>>

ExecCall ==
    /\ Fetchable
    /\ Current.itype = "call"
    /\ lastExecuted' = Current
    /\ callTrace' = Append(callTrace, Current)
    /\ IF AsksHost(Current)
       THEN /\ stack' = Advanced
            /\ pending' = Current
            /\ Suspend("modulePathEquals")
       ELSE /\ Len(stack) < MaxDepth
            /\ Landed(CallSameModule(Advanced, Current))
    /\ UNCHANGED <<prog, choice, generated, inputs, compilation>>
    /\ Others(IF AsksHost(Current) THEN Captured ELSE NullRef, FALSE)

ExecGoto ==
    /\ Fetchable
    /\ Current.itype = "goto"
    /\ lastExecuted' = Current
    /\ callTrace' = Append(callTrace, Current)
    /\ IF AsksHost(Current)
       THEN /\ stack' = Advanced
            /\ pending' = Current
            /\ Suspend("modulePathEquals")
       ELSE Landed(GotoSameModule(Advanced, Current))
    /\ UNCHANGED <<prog, choice, generated, inputs, compilation>>
    /\ Others(IF AsksHost(Current) THEN Captured ELSE NullRef, FALSE)

\* await this.env.modulePathEquals(instruction.path, currentFrame.modulePath)
ModulePathEqualsResolved ==
    /\ pc = "modulePathEquals"
    /\ IF ModulePathEquals(pending.path, HeldFrame(issuer).modulePath)
       THEN /\ pending.itype = "call" => Len(stack) < MaxDepth
            /\ Landed(SameModule(stack, issuer, pending))
            /\ Others(NullRef, FALSE)
       ELSE /\ Suspend("loadModule")
            /\ UNCHANGED <<stack, pending>>
            /\ Others(issuer, FALSE)
    /\ UNCHANGED <<prog, choice, generated, inputs, lastExecuted, callTrace,
                   compilation>>

\* await this.env.loadModule(instruction.path, currentFrame.modulePath)
LoadModuleResolved ==
    /\ pc = "loadModule"
    /\ Canon(pending.path) \in Loadable(prog)
    /\ pending.itype = "call" => Len(stack) < MaxDepth
    /\ Landed(Loaded(stack, pending, LoadedModule(prog, pending.path)))
    /\ UNCHANGED <<prog, choice, generated, inputs, lastExecuted, callTrace,
                   compilation>>
    /\ Others(NullRef, pending.itype = "goto")

\* Either promise of the Environment rejects: the rejection propagates.
EnvironmentRejected ==
    /\ pc \in {"modulePathEquals", "loadModule"}
    /\ Throw("Rejected")
    /\ UNCHANGED <<prog, stack, choice, generated, inputs, lastExecuted,
                   callTrace, compilation>>
    /\ Others(NullRef, FALSE)

Next ==
    \/ \E input \in Inputs : NextOutput(input)
    \/ LoopBreak
    \/ LoopPop
    \/ ExecPause
    \/ ExecEffect
    \/ ExecEmbeddedCode
    \/ ExecChoice
    \/ ExecCall
    \/ ExecGoto
    \/ ExecAdvEnd
    \/ ExecUnknown
    \/ ModulePathEqualsResolved
    \/ LoadModuleResolved
    \/ EnvironmentRejected

Spec == Init /\ [][Next]_vars

\* The steps a call in progress takes by itself: the synchronous code of
\* nextOutput between two awaits, and the settling of an awaited promise.
LoopStep ==
    \/ LoopBreak
    \/ LoopPop
    \/ ExecPause
    \/ ExecEffect
    \/ ExecEmbeddedCode
    \/ ExecChoice
    \/ ExecCall
    \/ ExecGoto
    \/ ExecAdvEnd
    \/ ExecUnknown
    \/ ModulePathEqualsResolved
    \/ LoadModuleResolved
    \/ EnvironmentRejected

\* ------------------------------------------------ overlapping nextOutput calls
\* nextOutput is async: while a call is suspended at an await, the host can
\* call nextOutput again on the same VM.  The variables pc, output, pending and
\* issuer describe the call that is running or was suspended last; parked
\* describes the other call in flight.  At most two calls are in flight.

\* The host takes over while the call in progress is suspended: from here it
\* can call nextOutput.
Park ==
    /\ pc \in {"modulePathEquals", "loadModule"}
    /\ parked = NullRef
    /\ overlaps < MaxOverlaps
    /\ Len(inputs) < MaxCalls
    /\ parked' = [pc |-> pc, output |-> output, pending |-> pending,
                  issuer |-> issuer]
    /\ pc' = "idle"
    /\ output' = NullRef
    /\ pending' = NullRef
    /\ issuer' = NullRef
    /\ overlaps' = overlaps + 1
    /\ UNCHANGED <<prog, stack, choice, generated, inputs, results,
                   lastExecuted, callTrace, compilation>>

\* The other call in flight is the one to go on: the running call has returned
\* or is suspended itself.
Switch ==
    /\ parked # NullRef
    /\ pc \in {"idle", "modulePathEquals", "loadModule"}
    /\ pc' = parked.pc
    /\ output' = parked.output
    /\ pending' = parked.pending
    /\ issuer' = parked.issuer
    /\ parked' = IF pc = "idle" THEN NullRef
                 ELSE [pc |-> pc, output |-> output, pending |-> pending,
                       issuer |-> issuer]
    /\ UNCHANGED <<prog, stack, choice, generated, inputs, results,
                   lastExecuted, callTrace, overlaps, compilation>>

OverlapNext ==
    \/ \E input \in Inputs : NextOutput(input)
    \/ LoopBreak
    \/ LoopPop
    \/ ExecPause
    \/ ExecEffect
    \/ ExecEmbeddedCode
    \/ ExecChoice
    \/ ExecCall
    \/ ExecGoto
    \/ ExecAdvEnd
    \/ ExecUnknown
    \/ ModulePathEqualsResolved
    \/ LoadModuleResolved
    \/ EnvironmentRejected
    \/ Park
    \/ Switch

OverlapSpec == Init /\ [][OverlapNext]_vars

\* ------------------------------------------------- the compiler on its own
\* The node kinds handed to the compiler.
NodeKinds ==
    {OptionNode("A", "m", "t1"), OptionNode("B", "", "t2"), CommentNode,
     AsideNode("x"), JumpPointNode("t1")}

RECURSIVE SeqsUpTo(_, _)
SeqsUpTo(S, n) ==
    IF n = 0 THEN {<<>>}
    ELSE LET shorter == SeqsUpTo(S, n - 1)
         IN shorter \cup {Append(q, x) : q \in {r \in shorter : Len(r) = n - 1},
                                        x \in S}

CompileInit ==
    /\ prog = "S1"
    /\ stack = <<Frame(Module(StartInstructions(prog), "main"))>>
    /\ choice = NullRef
    /\ pc = "idle"
    /\ output = NullRef
    /\ pending = NullRef
    /\ generated = 0
    /\ inputs = <<>>
    /\ results = <<>>
    /\ lastExecuted = NullRef
    /\ callTrace = <<>>
    /\ issuer = NullRef
    /\ parked = NullRef
    /\ overlaps = 0
    /\ compilation \in
         {[source |-> source, isDisposable |-> d, done |-> FALSE,
           instructions |-> <<>>] :
            source \in SeqsUpTo(NodeKinds, MaxNodes), d \in BOOLEAN}

\* compiler.compile(source, isDisposable)
CompileCall ==
    /\ ~compilation.done
    /\ compilation' =
         [compilation EXCEPT
            !.done = TRUE,
            !.instructions = Compile(compilation.source,
                                     compilation.isDisposable, 0)]
    /\ UNCHANGED vmVars

CompileNext == CompileCall

CompileSpec == CompileInit /\ [][CompileNext]_vars

\* =================================================================== claims
\* A step that starts a nextOutput call, and the input it was given.
CallStep == Len(inputs') = Len(inputs) + 1
GivenInput == inputs'[Len(inputs')]
\* A step that finishes a nextOutput call, and what the call yielded.
Finishes == Len(results') = Len(results) + 1
Yielded == results'[Len(results')]
ItypeOf(instruction) == GetProp(instruction, "itype")
IsPauselessOutput(r) == r.kind = "output" /\ r.output.pausePoint = NullRef

\* C1 (as claimed): every nextOutput call that completes without error returns
\* null or an Output whose pausePoint is non-null.
C1_OutputAlwaysPauses ==
    \A i \in 1..Len(results) :
        results[i].kind = "output" => results[i].output.pausePoint # NullRef

\* C1 (amended): a completed call returns null, an Output with a pause point,
\* or an Output without one; the last is returned exactly when the loop finds
\* the frame stack empty, and from then on the stack is empty and every call
\* returns null.
C1_AfterPauselessOutput ==
    \A i \in 1..Len(results) :
        /\ results[i].kind \in {"null", "output", "error"}
        /\ IsPauselessOutput(results[i]) =>
              /\ stack = <<>>
              /\ \A j \in (i + 1)..Len(results) : results[j] = ReturnedNull

C1_PauselessOutputEndsScript ==
    /\ []C1_AfterPauselessOutput
    /\ [][Finishes =>
            (IsPauselessOutput(Yielded) <=> (pc = "running" /\ stack = <<>>))]_vars

C1_Witness ==
    /\ prog = "Effects"
    /\ Len(results) = 3
    /\ results[2].kind = "output" /\ results[2].output.pausePoint # NullRef
    /\ IsPauselessOutput(results[3])
    /\ results[3].output.roleOperation # NullRef

\* C2 (as claimed): a call that answers the pending choice with a valid
\* optionIndex i inserts, at the top frame's program counter, exactly one
\* disposable call whose path and tag are the two target slots of option i,
\* and clears the pending choice.
C2_SelectedOptionIsCalled ==
    [][(CallStep /\ choice # NullRef /\ pc' = "running") =>
         LET selectedOption == At(choice.options, GivenInput.optionIndex)
             before == Top(stack)
             after == Top(stack')
             inserted == GetInstruction(after)
         IN /\ choice' = NullRef
            /\ Len(stack') = Len(stack)
            /\ after.programCounter = before.programCounter
            /\ after.instructions =
                 SpliceInsert(before.instructions, before.programCounter,
                              <<inserted>>)
            /\ inserted.itype = "call"
            /\ inserted.isDisposable
            /\ inserted.path = selectedOption.pathOrCodeContent
            /\ inserted.tag = selectedOption.tagOrCodeType]_vars

\* C3 (as claimed): scenario S2: Options([A, B]), then with optionIndex 1
\* Aside(a2), then null.
C3_ScenarioS2 ==
    (prog = "S2" /\ Len(results) = 3 /\ inputs[2] = InputIndex(1)) =>
        /\ results[1].kind = "output"
        /\ results[1].output.pausePoint = Options(StartInstructions("S2")[1].options)
        /\ results[1].output.pausePoint.optionNames = <<"A", "B">>
        /\ results[2].kind = "output"
        /\ results[2].output.pausePoint = Aside(AsideNode("a2"))
        /\ results[3] = ReturnedNull

\* C4: with a choice pending, a call without input, with a null optionIndex or
\* with an optionIndex outside 0..n-1 fails with the matching error; these
\* errors arise in no other way, and without a pending choice no input makes
\* the call fail on entry.
InputErrors ==
    {Thrown("MissingInput"), Thrown("NullOptionIndex"),
     Thrown("OptionIndexOutOfRange")}

C4_InputErrors ==
    [][/\ (CallStep /\ choice # NullRef) =>
            LET n == Len(choice.options) IN
            /\ ~GivenInput.present =>
                 Finishes /\ Yielded = Thrown("MissingInput")
            /\ (GivenInput.present /\ GivenInput.indexIsNull) =>
                 Finishes /\ Yielded = Thrown("NullOptionIndex")
            /\ (GivenInput.present /\ ~GivenInput.indexIsNull
                  /\ GivenInput.optionIndex \notin 0..(n - 1)) =>
                 Finishes /\ Yielded = Thrown("OptionIndexOutOfRange")
            /\ (GivenInput.present /\ ~GivenInput.indexIsNull
                  /\ GivenInput.optionIndex \in 0..(n - 1)) =>
                 ~(Finishes /\ Yielded.kind = "error")
       /\ (CallStep /\ choice = NullRef) =>
            /\ ~(Finishes /\ Yielded.kind = "error")
            /\ choice' = NullRef
       /\ (Finishes /\ Yielded \in InputErrors) =>
            CallStep /\ choice # NullRef]_vars

C4_Witness ==
    /\ Len(results) = 3
    /\ results[1].kind = "output"
    /\ results[1].output.pausePoint.kind = "Options"
    /\ Len(results[1].output.pausePoint.optionNames) = 2
    /\ inputs[1] = InputIndex(-1)
    /\ inputs[2] = NoInput /\ results[2] = Thrown("MissingInput")
    /\ inputs[3] = InputIndex(2) /\ results[3] = Thrown("OptionIndexOutOfRange")

\* C5: the step that executes adv_end leaves the frame stack empty, whatever
\* its depth was, and the next nextOutput call returns null for every input.
C5_AdvEndTerminal ==
    [][/\ (Fetchable /\ Current.itype = "adv_end") => stack' = <<>>
       /\ ItypeOf(lastExecuted) = "adv_end" => stack = <<>> /\ stack' = <<>>
       /\ (ItypeOf(lastExecuted) = "adv_end" /\ CallStep) =>
            Finishes /\ Yielded = ReturnedNull]_vars

C5_Witness ==
    /\ prog = "S4"
    /\ ItypeOf(lastExecuted) = "adv_end"
    /\ Len(results) = 3
    /\ inputs[2] = InputIndex(0)
    /\ results[2] = ReturnedNull /\ results[3] = ReturnedNull

\* C6 (as claimed): scenario S4: the first call returns null, and aside
\* "never" is not produced by any call.
NeverProduced ==
    \A i \in 1..Len(results) :
        results[i].kind = "output" =>
            results[i].output.pausePoint # Aside(AsideNode("never"))

C6_ScenarioS4 ==
    (prog = "S4" /\ Len(results) >= 1) =>
        results[1] = ReturnedNull /\ NeverProduced

\* C6 (amended): scenario S4: the first call returns an Output without pause
\* point and without effects, every later call returns null, and aside
\* "never" is not produced by any call.
C6_ScenarioS4Amended ==
    (prog = "S4" /\ Len(results) >= 1) =>
        /\ results[1] = ReturnedOutput(NewOutput)
        /\ \A j \in 2..Len(results) : results[j] = ReturnedNull
        /\ NeverProduced

C6_Witness ==
    prog = "S4" /\ Len(results) = 2 /\ results[2] = ReturnedNull /\ stack = <<>>

\* C7: compile emits, in source order, one Node instruction per node that is
\* neither option nor comment and one Choice per maximal run of consecutive
\* option nodes, holding that run's options in source order; comments emit
\* nothing and end a run.
IsOption(source, i) == source[i].type = "option"

\* The positions at which something is emitted: a plain node, or the last
\* option of a maximal run.
EmitPositions(source) ==
    {i \in 1..Len(source) :
        \/ source[i].type \notin {"option", "comment"}
        \/ /\ IsOption(source, i)
           /\ (i = Len(source) \/ ~IsOption(source, i + 1))}

\* The first position of the maximal run of options that ends at i.
RunStart(source, i) ==
    CHOOSE j \in 1..i :
        /\ \A k \in j..i : IsOption(source, k)
        /\ (j = 1 \/ ~IsOption(source, j - 1))

NthPosition(positions, n) ==
    CHOOSE q \in positions : Cardinality({r \in positions : r <= q}) = n

C7_OptionFusion ==
    compilation.done =>
        LET source == compilation.source
            emitted == compilation.instructions
            positions == EmitPositions(source)
        IN /\ Len(emitted) = Cardinality(positions)
           /\ \A n \in 1..Len(emitted) :
                LET q == NthPosition(positions, n) IN
                /\ emitted[n].isDisposable = compilation.isDisposable
                /\ IF IsOption(source, q)
                   THEN /\ emitted[n].itype = "choice"
                        /\ emitted[n].options =
                             [k \in 1..(q - RunStart(source, q) + 1) |->
                                LET node == source[RunStart(source, q) + k - 1]
                                IN [name |-> node.optionName,
                                    pathOrCodeContent |-> node.file,
                                    tagOrCodeType |-> node.location]]
                   ELSE /\ emitted[n].itype = source[q].type
                        /\ emitted[n].node = source[q]

C7_Witness ==
    /\ compilation.done
    /\ compilation.source =
         <<OptionNode("A", "m", "t1"), CommentNode, OptionNode("B", "", "t2"),
           OptionNode("A", "m", "t1")>>
    /\ Len(compilation.instructions) = 2
    /\ Len(compilation.instructions[1].options) = 1
    /\ Len(compilation.instructions[2].options) = 2

\* C8: fetching a disposable instruction removes it from the working list and
\* leaves the program counter where it is; fetching any other instruction
\* leaves the list alone and moves the program counter on; and no frame ever
\* fetches the same disposable instruction twice.
FrameEffectTypes == {"embeddedCode", "call", "goto", "adv_end"}

C8_FetchAdvances ==
    (Fetchable /\ Current.itype \notin FrameEffectTypes) =>
        LET before == Top(stack)
            after == Top(stack')
        IN /\ Len(stack') = Len(stack)
           /\ IF Current.isDisposable
              THEN /\ after.programCounter = before.programCounter
                   /\ after.instructions =
                        SpliceRemove(before.instructions, before.programCounter)
                   /\ \A i \in 1..Len(after.instructions) :
                        after.instructions[i].id # Current.id
              ELSE /\ after.programCounter = before.programCounter + 1
                   /\ after.instructions = before.instructions

C8_DisposableOnce ==
    /\ [][C8_FetchAdvances]_vars
    /\ [](\A i \in 1..Len(stack) :
            \A fetch \in stack[i].fetchedAgain : ~fetch.isDisposable)

C8_Witness ==
    /\ prog = "Loop"
    /\ \E fetch \in Top(stack).fetchedAgain : ~fetch.isDisposable
    /\ Cardinality({fetch \in Top(stack).fetchedOnce : fetch.isDisposable}) >= 2
    /\ Top(stack).instructions = Top(stack).originalInstructions

\* C9: the jump of a call or goto leaves the target frame's program counter at
\* the first jumpPoint of the working list labelled with the tag; with no such
\* jumpPoint it throws and leaves the program counter as it was; with a null
\* tag the program counter becomes 0.
Rejected == Finishes /\ Yielded = Thrown("Rejected")

JumpsNow ==
    \/ Fetchable /\ Current.itype \in {"call", "goto"} /\ ~AsksHost(Current)
    \/ pc = "modulePathEquals" /\ pc' # "loadModule" /\ ~Rejected
    \/ pc = "loadModule" /\ ~Rejected

JumpingInstruction == IF pc = "running" THEN Current ELSE pending

\* The target frame's program counter when jump is entered.
CounterBeforeJump ==
    IF JumpingInstruction.itype = "call" \/ pc = "loadModule" THEN 0
    ELSE IF pc = "modulePathEquals" THEN Top(stack).programCounter
    ELSE IF Current.isDisposable THEN Top(stack).programCounter
    ELSE Top(stack).programCounter + 1

LabelIndexes(frame, tag) ==
    {i \in 0..(Len(frame.instructions) - 1) :
        IsJumpPoint(At(frame.instructions, i), tag)}

C9_LabelResolution ==
    [][JumpsNow =>
         LET target == Top(stack')
             tag == JumpingInstruction.tag
             labelled == LabelIndexes(target, tag)
         IN IF tag = Null
            THEN target.programCounter = 0 /\ ~Finishes
            ELSE IF labelled # {}
            THEN /\ target.programCounter \in labelled
                 /\ \A i \in labelled : target.programCounter <= i
                 /\ ~Finishes
            ELSE /\ Finishes /\ Yielded = Thrown("JumpNotFound")
                 /\ target.programCounter = CounterBeforeJump]_vars

C9_Witness ==
    /\ prog = "Shadow"
    /\ pc = "running"
    /\ ItypeOf(lastExecuted) = "goto"
    /\ lastExecuted.tag = "T"
    /\ Top(stack).programCounter = 1
    /\ Cardinality(LabelIndexes(Top(stack), "T")) = 3
    /\ Top(stack).instructions # Top(stack).originalInstructions

\* C10: a same-module call pushes a frame whose working list is the module's
\* instruction list as loaded, however the caller's working list has been
\* changed; and the pristine list of every frame is that list at all times.
ModuleInstructions(path) == LoadedModule(prog, path).instructions

SameModuleCallNow ==
    \/ Fetchable /\ Current.itype = "call" /\ ~AsksHost(Current)
    \/ /\ pc = "modulePathEquals" /\ pending.itype = "call" /\ ~Rejected
       /\ ModulePathEquals(pending.path, Top(stack).modulePath)

C10_CallStep ==
    SameModuleCallNow =>
        LET caller == Top(stack)
            callee == Top(stack')
        IN /\ Len(stack') = Len(stack) + 1
           /\ callee.modulePath = caller.modulePath
           /\ callee.instructions = ModuleInstructions(caller.modulePath)
           /\ callee.originalInstructions = ModuleInstructions(caller.modulePath)

C10_SameModuleCallFresh ==
    /\ [][C10_CallStep]_vars
    /\ [](\A i \in 1..Len(stack) :
            stack[i].originalInstructions = ModuleInstructions(stack[i].modulePath))

C10_Witness ==
    /\ Len(stack) >= 2
    /\ pc = "running"
    /\ ItypeOf(lastExecuted) = "call"
    /\ Top(stack).fetchedOnce = {}
    /\ Top(stack).instructions = ModuleInstructions("main")
    /\ LET caller == stack[Len(stack) - 1]
       IN /\ caller.instructions # caller.originalInstructions
          /\ Len(caller.instructions) > Len(caller.originalInstructions)

\* The instruction types whose execution sets output.pausePoint.
PauseSetters == PauseTypes \cup {"choice"}
\* The instructions of a frame from its program counter on.
Remaining(frame) ==
    SubSeq(frame.instructions, frame.programCounter + 1,
           Len(frame.instructions))

\* C11, the pausing step: the step that dispatches an aside, roleDialog,
\* insertedImage or choice ends the call.  It yields the Output built so far
\* with only its pause point set, pushes and pops no frame, changes no frame
\* below the top, and leaves the top frame's program counter in front of the
\* instruction that followed the pausing one.
C11_PauseEndsCall ==
    (Fetchable /\ Current.itype \in PauseSetters) =>
        /\ Finishes
        /\ pc' = "idle"
        /\ Yielded.kind = "output"
        /\ Yielded.output.pausePoint # NullRef
        /\ Yielded.output = [output EXCEPT !.pausePoint = Yielded.output.pausePoint]
        /\ Len(stack') = Len(stack)
        /\ Pop(stack') = Pop(stack)
        /\ Remaining(Top(stack')) =
             SubSeq(Remaining(Top(stack)), 2, Len(Remaining(Top(stack))))

\* C11, the next call: without a pending choice a call on a frame that has not
\* ended enters the loop on the stack the pausing step left, so the first
\* instruction it fetches is the one at that program counter.
C11_NextCallResumes ==
    (CallStep /\ choice = NullRef /\ stack # <<>> /\ ~IsEnded(Top(stack))) =>
        /\ stack' = stack
        /\ pc' = "running"
        /\ output' = NewOutput

\* C11: in every nextOutput call the instruction that sets the pause point is
\* the last one executed: no instruction is fetched while a pause point is set,
\* a call that returns a pause point returns it in the step that dispatched the
\* pausing instruction, and the next call resumes right after it.
C11_PauseIsLast ==
    /\ [](pc # "idle" => output.pausePoint = NullRef)
    /\ [][C11_PauseEndsCall]_vars
    /\ [][(Finishes /\ Yielded.kind = "output"
                    /\ Yielded.output.pausePoint # NullRef) =>
            (Fetchable /\ Current.itype \in PauseSetters
                       /\ lastExecuted' = Current)]_vars
    /\ [][C11_NextCallResumes]_vars

\* Two asides of one frame come out of two successive calls.
C11_Witness ==
    /\ prog = "S1"
    /\ pc = "idle"
    /\ Len(results) = 2
    /\ results[1] = ReturnedOutput([NewOutput EXCEPT !.pausePoint =
                                       Aside(AsideNode("hi"))])
    /\ results[2] = ReturnedOutput([NewOutput EXCEPT !.pausePoint =
                                       Aside(AsideNode("bye"))])
    /\ Top(stack).programCounter = 2

\* The node types the dispatch of the VM and the compiler know.
ClosedNodeTypes ==
    {"aside", "roleDialog", "roleExpression", "roleOperation", "scene",
     "insertedImage", "functionCalling", "embeddedCode", "option", "comment",
     "jumpPoint"}

\* C12 (as claimed): every node the parser produces has a type of the closed
\* set, so every instruction executed from a compiled parsed script is one the
\* dispatch handles and no call fails with UnknownInstruction.
C12_ParsedScriptRuns ==
    prog = "Parsed" =>
        /\ \A i \in 1..Len(results) : results[i] # Thrown("UnknownInstruction")
        /\ (lastExecuted # NullRef /\ "node" \in DOMAIN lastExecuted) =>
              /\ lastExecuted.node.type \in ClosedNodeTypes
              /\ lastExecuted.itype \in KnownTypes

\* The programs that consist of pausing nodes only.
LinearPrograms == {"S1", "Pauses"}
PausePointOf(instruction) ==
    CASE instruction.itype = "aside" -> Aside(instruction.node)
      [] instruction.itype = "insertedImage" -> InsertedImage(instruction.node)
      [] instruction.itype = "roleDialog" -> RoleDialog(instruction.node)

\* C13, the results: in a module of n pausing nodes the k-th finished call
\* returned the pause point of the k-th node and nothing else for k <= n, and
\* null for k > n.
C13_KthCallKthNode ==
    prog \in LinearPrograms =>
        LET module == StartInstructions(prog) IN
        \A k \in 1..Len(results) :
            results[k] =
              IF k <= Len(module)
              THEN ReturnedOutput([NewOutput EXCEPT !.pausePoint =
                                      PausePointOf(module[k])])
              ELSE ReturnedNull

\* C13: the instructions of a frame execute in program order: the k-th call
\* on a module of n pausing nodes returns the k-th node's pause point and call
\* n + 1 returns null.  Every call terminates: a call that entered the loop
\* always has a step of its own to take, and that step returns.
C13_ProgramOrder ==
    /\ []C13_KthCallKthNode
    /\ []((prog \in LinearPrograms /\ pc # "idle") => ENABLED LoopStep)
    /\ [][(prog \in LinearPrograms /\ pc # "idle") => Finishes]_vars

\* Call n + 1 on the module of two asides.
C13_Witness ==
    /\ prog = "S1"
    /\ Len(results) = 3
    /\ results[2].kind = "output"
    /\ results[3] = ReturnedNull

\* The working list of the top frame once the instruction at its program
\* counter has been advanced past.
AdvancedPastList ==
    IF Current.isDisposable
    THEN SpliceRemove(Top(stack).instructions, Top(stack).programCounter)
    ELSE Top(stack).instructions

\* C14, one step of a goto.  Dispatching it only advances the issuing frame
\* past it and, when the host is not asked, moves that frame's program counter;
\* while modulePathEquals is awaited or answers, nothing but the program
\* counter of the top frame changes; when loadModule answers, the top frame is
\* replaced by a fresh frame of the loaded module.  The depth never changes and
\* no frame below the top is touched.
C14_GotoStep ==
    /\ (Fetchable /\ Current.itype = "goto") =>
          /\ Len(stack') = Len(stack)
          /\ Pop(stack') = Pop(stack)
          /\ Top(stack').instructions = AdvancedPastList
          /\ Top(stack').modulePath = Top(stack).modulePath
          /\ Top(stack').originalInstructions = Top(stack).originalInstructions
    /\ (pc = "modulePathEquals" /\ pending.itype = "goto") =>
          /\ Len(stack') = Len(stack)
          /\ stack' = ReplaceTop(stack,
                        [Top(stack) EXCEPT !.programCounter =
                                              Top(stack').programCounter])
          /\ (pc' # "loadModule" /\ ~Rejected) =>
                ModulePathEquals(pending.path, Top(stack).modulePath)
    /\ (pc = "loadModule" /\ pending.itype = "goto") =>
          IF Rejected THEN stack' = stack
          ELSE /\ Len(stack') = Len(stack)
               /\ Pop(stack') = Pop(stack)
               /\ ~ModulePathEquals(pending.path, Top(stack).modulePath)
               /\ Top(stack').modulePath = LoadedModule(prog, pending.path).path
               /\ Top(stack').instructions = ModuleInstructions(pending.path)
               /\ Top(stack').originalInstructions =
                    ModuleInstructions(pending.path)
               /\ Top(stack').fetchedOnce = {}

\* C14, the consequence for S3 (main is one goto into module other, which is
\* one aside): unless the host rejects, the calls return the aside of other
\* and then null; control never comes back to main.
C14_NoReturnToIssuer ==
    (prog = "S3" /\ \A i \in 1..Len(results) : results[i] # Thrown("Rejected"))
        => \A i \in 1..Len(results) :
              results[i] =
                IF i = 1
                THEN ReturnedOutput([NewOutput EXCEPT !.pausePoint =
                                        Aside(AsideNode("x"))])
                ELSE ReturnedNull

\* C14: executing a goto never changes the depth of the stack: a same-module
\* goto only moves the program counter of the issuing frame, whose working
\* list keeps its earlier changes; a cross-module goto replaces the issuing
\* frame by one fresh frame of the loaded module, so control does not return
\* to the issuing frame when that frame ends.
C14_GotoKeepsDepth ==
    /\ [][C14_GotoStep]_vars
    /\ []C14_NoReturnToIssuer

\* A goto into another module has replaced the only frame, and the calls
\* returned the aside of that module and then null.
C14_Witness ==
    /\ prog = "S3"
    /\ ItypeOf(lastExecuted) = "aside"
    /\ stack = <<>>
    /\ Len(results) = 2
    /\ results[2] = ReturnedNull
    /\ results[1].kind = "output"

\* A step in which a call or the answer of the host pushes the target frame.
CallLandsNow ==
    \/ Fetchable /\ Current.itype = "call" /\ ~AsksHost(Current)
    \/ /\ pc = "modulePathEquals" /\ pending.itype = "call"
       /\ pc' # "loadModule" /\ ~Rejected
    \/ pc = "loadModule" /\ pending.itype = "call" /\ ~Rejected

\* An Output with a pause point and no effect.
Paused(pausePoint) ==
    ReturnedOutput([NewOutput EXCEPT !.pausePoint = pausePoint])

\* C15, the call: dispatching a call advances the caller past it, so that the
\* caller's program counter stands in front of the instruction that followed
\* the call; the step in which the call lands pushes exactly one frame, with
\* an empty fetch history, on top of that caller.
C15_CallPushesOne ==
    /\ (Fetchable /\ Current.itype = "call") =>
          LET caller == stack'[Len(stack)] IN
          /\ Len(stack') \in {Len(stack), Len(stack) + 1}
          /\ SubSeq(stack', 1, Len(stack) - 1) = Pop(stack)
          /\ caller.instructions = AdvancedPastList
          /\ Remaining(caller) =
               SubSeq(Remaining(Top(stack)), 2, Len(Remaining(Top(stack))))
    /\ (pc \in {"modulePathEquals", "loadModule"} /\ pending.itype = "call") =>
          Len(stack') = Len(stack) \/ Pop(stack') = stack
    /\ CallLandsNow =>
          /\ Len(stack') = Len(stack) + 1
          /\ Top(stack').fetchedOnce = {}

\* C15, the wait: a frame below the top of the stack never changes, so a caller
\* whose callee is popped is as the call left it.
C15_CallerWaits ==
    \A i \in 1..(Len(stack) - 1) : i <= Len(stack') => stack'[i] = stack[i]

\* C15, the selected option: in program Return module other is entered at its
\* label t, where a choice stands in front of the aside "after".  The call
\* spliced in for the selected option runs a frame that ends after the aside
\* "o1"; the next call then returns the aside "after" of the frame that
\* executed the choice.
C15_OptionCallReturns ==
    (prog = "Return" /\ Len(results) >= 3
                     /\ \A i \in 1..Len(results) : results[i].kind = "output")
        => /\ results[1].output.pausePoint.kind = "Options"
           /\ results[2] = Paused(Aside(AsideNode("o1")))
           /\ results[3] = Paused(Aside(AsideNode("after")))

\* C15: executing a call, the one spliced in for a selected option included,
\* pushes exactly one frame; when that frame has ended and is popped execution
\* resumes in the caller at the instruction that followed the call.
C15_CallAndReturn ==
    /\ [][C15_CallPushesOne]_vars
    /\ [][C15_CallerWaits]_vars
    /\ []C15_OptionCallReturns

\* The frame called for the selected option has ended and been popped, and the
\* aside behind the choice has come out.
C15_Witness ==
    /\ prog = "Return"
    /\ Len(results) = 3
    /\ results[1].kind = "output"
    /\ results[1].output.pausePoint.kind = "Options"
    /\ results[3] = Paused(Aside(AsideNode("after")))
    /\ Len(stack) = 2
    /\ Top(stack).modulePath = "other"

Awaiting == pc \in {"modulePathEquals", "loadModule"}

\* C16, the suspension: a call or goto with a non-empty path suspends the call
\* at modulePathEquals with the issuing frame already advanced past it (removed
\* if disposable, program counter plus one otherwise) and nothing else changed.
C16_SuspendsAdvanced ==
    (Fetchable /\ Current.itype \in {"call", "goto"} /\ AsksHost(Current)) =>
        /\ pc' = "modulePathEquals"
        /\ pending' = Current
        /\ Len(stack') = Len(stack)
        /\ Pop(stack') = Pop(stack)
        /\ Top(stack').instructions = AdvancedPastList
        /\ Top(stack').programCounter =
             IF Current.isDisposable THEN Top(stack).programCounter
             ELSE Top(stack).programCounter + 1
        /\ UNCHANGED <<choice, results>>

\* C16, the rejection: a step that leaves an await by a rejection ends the call
\* with that rejection and changes neither the stack nor the pending choice;
\* the instruction the issuing frame would fetch next is not the rejected one.
\* A modulePathEquals that answers false leaves the stack alone as well.
C16_RejectionKeepsState ==
    /\ (Awaiting /\ Rejected) =>
          /\ pc' = "idle"
          /\ UNCHANGED <<stack, choice, generated>>
          /\ IsEnded(Top(stack)) \/ GetInstruction(Top(stack)).id # pending.id
    /\ (pc = "modulePathEquals" /\ pc' = "loadModule") =>
          UNCHANGED <<stack, choice, pending>>

\* C16, the retry in S3 (main is one goto into module other): when the host
\* rejected during the first call, the second call does not execute the goto
\* again: main has ended and the call returns null.
C16_RetrySkips ==
    (prog = "S3" /\ Len(results) >= 2 /\ results[1] = Thrown("Rejected"))
        => results[2] = ReturnedNull

\* C16: when modulePathEquals or loadModule rejects during a call or goto, the
\* rejection leaves nextOutput and the VM is as it was at the suspension: no
\* frame pushed, popped or replaced, the issuing frame advanced past the
\* instruction, so that a retry does not execute it again.
C16_RejectionPropagates ==
    /\ [][C16_SuspendsAdvanced]_vars
    /\ [][C16_RejectionKeepsState]_vars
    /\ []C16_RetrySkips
    /\ [](Awaiting => ENABLED EnvironmentRejected)

\* The host rejected the goto of S3 and the retry returned null.
C16_Witness ==
    /\ prog = "S3"
    /\ results = <<Thrown("Rejected"), ReturnedNull>>
    /\ ItypeOf(lastExecuted) = "goto"
    /\ stack = <<>>

\* The instruction types one callable of the evaluator generates, in order:
\* fusion compiles its source (here without option or comment nodes, so one
\* instruction per node), the other callables generate one instruction each.
GeneratedTypes(code) ==
    IF code.fn = "fusion"
    THEN [i \in 1..Len(code.source) |-> code.source[i].type]
    ELSE <<code.fn>>

RECURSIVE TypesInCallOrder(_, _)
TypesInCallOrder(codeContent, index) ==
    IF index > Len(codeContent) THEN <<>>
    ELSE GeneratedTypes(codeContent[index])
           \o TypesInCallOrder(codeContent, index + 1)

\* The identities of the instructions held by the frames of a stack.
HeldIds(stk) ==
    UNION {{stk[i].instructions[j].id : j \in 1..Len(stk[i].instructions)}
             \cup {stk[i].originalInstructions[j].id :
                     j \in 1..Len(stk[i].originalInstructions)} :
           i \in 1..Len(stk)}

\* C17, the step of an embeddedCode instruction: the frame is advanced past
\* it, and the instructions the callables generated, new objects that are all
\* disposable and of the types the calls were made in, are spliced in at the
\* program counter in that order; the step sets no pause point and the call
\* goes on.
C17_EmbeddedCodeStep ==
    (Fetchable /\ Current.itype = "embeddedCode") =>
        LET before == Top(stack)
            after == Top(stack')
            at == after.programCounter
            types == TypesInCallOrder(Current.node.codeContent, 1)
            spliced == SubSeq(after.instructions, at + 1, at + Len(types))
        IN /\ Len(stack') = Len(stack)
           /\ Pop(stack') = Pop(stack)
           /\ at = IF Current.isDisposable THEN before.programCounter
                   ELSE before.programCounter + 1
           /\ after.instructions = SpliceInsert(AdvancedPastList, at, spliced)
           /\ Len(spliced) = Len(types)
           /\ \A i \in 1..Len(types) :
                 /\ spliced[i].itype = types[i]
                 /\ spliced[i].isDisposable
                 /\ spliced[i].id \notin HeldIds(stack)
                 /\ \A j \in 1..Len(types) :
                       spliced[i].id = spliced[j].id => i = j
           /\ ~Finishes
           /\ pc' = "running"
           /\ output' = output

\* C17, scenario S5 (one embeddedCode whose code is fusion of the asides a and
\* b): the calls return Aside(a), Aside(b) and then null.
C17_ScenarioS5 ==
    prog = "S5" =>
        \A i \in 1..Len(results) :
            results[i] = CASE i = 1 -> Paused(Aside(AsideNode("a")))
                           [] i = 2 -> Paused(Aside(AsideNode("b")))
                           [] OTHER -> ReturnedNull

TracePositions(itype) ==
    {i \in 1..Len(callTrace) : callTrace[i].itype = itype}
LastPosition(itype) ==
    IF TracePositions(itype) = {} THEN 0
    ELSE CHOOSE i \in TracePositions(itype) :
            \A j \in TracePositions(itype) : j <= i

\* What the effects of the instructions of the latest call amount to.
EffectsOfCall ==
    [scene |->
        IF LastPosition("scene") = 0 THEN NullRef
        ELSE Scene(callTrace[LastPosition("scene")].node),
     roleExpression |->
        IF LastPosition("roleExpression") = 0 THEN NullRef
        ELSE RoleExpression(callTrace[LastPosition("roleExpression")].node),
     roleOperation |->
        IF LastPosition("roleOperation") = 0 THEN NullRef
        ELSE RoleOperation(callTrace[LastPosition("roleOperation")].node),
     functionCallings |->
        {FunctionCalling(callTrace[i].node) :
           i \in {k \in TracePositions("functionCalling") :
                    \A j \in TracePositions("functionCalling") :
                       (j > k) => callTrace[j].node.function
                                    # callTrace[k].node.function}}]

HasEffects(out, effects) ==
    /\ out.scene = effects.scene
    /\ out.roleExpression = effects.roleExpression
    /\ out.roleOperation = effects.roleOperation
    /\ out.functionCallings = effects.functionCallings

\* C18: the Output of a call holds the effects of the instructions executed in
\* that call only: scene, roleExpression and roleOperation are those of the
\* last such instruction of the call (null when there was none), and
\* functionCallings holds, for each function name, the last functionCalling
\* of that name in the call.  This holds of the Output under construction at
\* every point of a call and of the Output the call returns.
C18_OutputOfThisCall ==
    /\ pc # "idle" => HasEffects(output, EffectsOfCall)
    /\ (pc = "idle" /\ Len(results) > 0
                    /\ results[Len(results)].kind = "output") =>
          HasEffects(results[Len(results)].output, EffectsOfCall)

\* The second call of Effects executed one functionCalling and returned it
\* alone, without the scene and the functionCallings of the first call.
C18_Witness ==
    /\ prog = "Effects"
    /\ pc = "idle"
    /\ Len(results) = 2
    /\ results[1].kind = "output"
    /\ results[1].output.scene = Scene(SceneNode("room"))
    /\ Cardinality(results[1].output.functionCallings) = 2
    /\ results[2].kind = "output"
    /\ results[2].output.scene = NullRef
    /\ results[2].output.functionCallings =
         {FunctionCalling(FunctionCallingNode("f", "f 2"))}
    /\ Len(callTrace) = 2

IsOptionsOutput(r) == r.kind = "output" /\ r.output.pausePoint.kind = "Options"
Succeeded(r) == r.kind \in {"null", "output"}

\* The latest Output with an Options pause point has been followed by no call
\* that succeeded.
NotAnsweredSuccessfully ==
    \E i \in 1..Len(results) :
        /\ IsOptionsOutput(results[i])
        /\ \A j \in (i + 1)..Len(results) : ~Succeeded(results[j])

\* The latest Output with an Options pause point has been followed by no call
\* that passed the checks of its input.
NotAnswered ==
    \E i \in 1..Len(results) :
        /\ IsOptionsOutput(results[i])
        /\ \A j \in (i + 1)..Len(results) : results[j] \in InputErrors

\* While a choice is pending the stack is non-empty, the pending choice is the
\* instruction dispatched last, and the top frame is the frame that fetched it.
PendingChoiceOnTop ==
    choice # NullRef =>
        /\ stack # <<>>
        /\ lastExecuted = choice
        /\ FetchRecord(choice)
             \in Top(stack).fetchedOnce \cup Top(stack).fetchedAgain

\* The step of a choice makes it the pending choice and leaves the program
\* counter of its frame right behind the place it was fetched from.
ChoiceStep ==
    (Fetchable /\ Current.itype = "choice") =>
        /\ choice' = Current
        /\ Len(stack') = Len(stack)
        /\ Pop(stack') = Pop(stack)
        /\ Top(stack').instructions = AdvancedPastList
        /\ Top(stack').programCounter =
             IF Current.isDisposable THEN Top(stack).programCounter
             ELSE Top(stack).programCounter + 1

\* C20 (as claimed): between calls a choice is pending if and only if the
\* latest Output with an Options pause point has not been answered by a
\* successful call; while it is pending the stack is non-empty and its top
\* frame is the one that executed the choice.
C20_PendingIffNoSuccessfulAnswer ==
    /\ pc = "idle" => (choice # NullRef <=> NotAnsweredSuccessfully)
    /\ PendingChoiceOnTop

\* C20 (amended), the states: a choice is pending if and only if no call is in
\* progress and the latest Output with an Options pause point has been
\* followed only by calls that failed the checks of their input.  The call
\* that passes them consumes the choice even when it fails later on.
C20_PendingIffNotAnswered ==
    /\ choice # NullRef <=> (pc = "idle" /\ NotAnswered)
    /\ PendingChoiceOnTop

\* C20 (amended): the above, and the frame that executed the choice stays on
\* top with its program counter right behind the choice for as long as the
\* choice is pending.
C20_PendingChoice ==
    /\ []C20_PendingIffNotAnswered
    /\ [][ChoiceStep]_vars
    /\ [][(choice # NullRef /\ choice' # NullRef) =>
            UNCHANGED <<stack, choice>>]_vars

\* A call answered the choice of Retry with a valid index and then failed with
\* a rejection of the host: no choice is pending any more.
C20_Witness ==
    /\ prog = "Retry"
    /\ pc = "idle"
    /\ Len(results) = 2
    /\ IsOptionsOutput(results[1])
    /\ results[2] = Thrown("Rejected")
    /\ choice = NullRef
    /\ Len(stack) = 2

OtherCallInFlight == parked # NullRef

\* An await is only ever reached by a call or goto with a non-empty path.
AwaitsForPath(at, instruction) ==
    /\ at \in {"modulePathEquals", "loadModule"}
    /\ instruction.itype \in {"call", "goto"}
    /\ instruction.path # Null
    /\ instruction.path # ""

\* C19, no interleaving without an await: a call is suspended only at
\* modulePathEquals or loadModule and only for a call or goto with a non-empty
\* path, so a second call in flight exists, and a call begins, only while the
\* other one is suspended there.
C19_InterleavedOnlyAtAwait ==
    /\ Awaiting => AwaitsForPath(pc, pending)
    /\ OtherCallInFlight => AwaitsForPath(parked.pc, parked.pending)
    /\ OtherCallInFlight => overlaps > 0

\* C19, no suspension without a path: a step of the loop that does not
\* dispatch a call or goto with a non-empty path leaves the call running or
\* returns; no call begins and none goes on in that step.
C19_StepWithoutPathRunsOn ==
    (pc = "running"
       /\ ~(Fetchable /\ Current.itype \in {"call", "goto"}
                      /\ Current.path # Null /\ Current.path # "")) =>
        /\ pc' \in {"running", "idle"}
        /\ pc' = "idle" => Finishes
        /\ inputs' = inputs
        /\ overlaps' = overlaps
        /\ OtherCallInFlight' = OtherCallInFlight

\* C19, the resumption: when loadModule answers, the frame of the loaded
\* module goes on the stack as it is by then: on top of it for a call, in
\* place of its top frame for a goto (on the empty stack when no frame is
\* left).
C19_ResumesOnCurrentStack ==
    (pc = "loadModule" /\ (pc' = "running" \/ Finishes) /\ ~Rejected) =>
        /\ Top(stack').modulePath = LoadedModule(prog, pending.path).path
        /\ IF pending.itype = "call" THEN Pop(stack') = stack
           ELSE Pop(stack') = Pop(stack)

\* C19, the serialised outcome of Race (main is a goto into module other
\* followed by the aside m1; other is the aside x): without overlapping calls
\* and without a rejection of the host the calls return Aside(x) and then
\* null, between calls the stack is empty from the second result on, and
\* Aside(m1) is never returned.
C19_SerialisedRace ==
    (prog = "Race" /\ overlaps = 0
                   /\ \A i \in 1..Len(results) : results[i].kind # "error") =>
        /\ \A i \in 1..Len(results) :
              results[i] = IF i = 1 THEN Paused(Aside(AsideNode("x")))
                           ELSE ReturnedNull
        /\ (pc = "idle" /\ Len(results) >= 2) => stack = <<>>

\* C19: overlapping nextOutput calls are possible only around an await of a
\* call or goto with a non-empty path; the call that resumes acts on the stack
\* the other call left; and the outcome of overlapping calls (the witness) is
\* none that serialised calls produce.
C19_OverlappingCalls ==
    /\ []C19_InterleavedOnlyAtAwait
    /\ [][C19_StepWithoutPathRunsOn]_vars
    /\ [][C19_ResumesOnCurrentStack]_vars
    /\ []C19_SerialisedRace

\* Race with a second call begun while the first awaited the host for its
\* goto: the second call executed the aside m1 of the issuing frame and
\* returned first, the first call then replaced that frame and returned the
\* aside x; no call failed, and the frame of module other is still on the stack.
C19_Witness ==
    /\ prog = "Race"
    /\ overlaps = 1
    /\ pc = "idle"
    /\ ~OtherCallInFlight
    /\ results = <<Paused(Aside(AsideNode("m1"))), Paused(Aside(AsideNode("x")))>>
    /\ Len(stack) = 1
    /\ Top(stack).modulePath = "other"

\* ---------------------------------------------------------------------- C21
\* The results of the calls that follow the first one, input errors left out.
RECURSIVE Accepted(_)
Accepted(rs) ==
    IF rs = <<>> THEN <<>>
    ELSE IF Head(rs) \in InputErrors THEN Accepted(Tail(rs))
    ELSE <<Head(rs)>> \o Accepted(Tail(rs))

\* C21: a nextOutput call that fails with MissingInput, NullOptionIndex or
\* OptionIndexOutOfRange leaves the VM as it was: the same choice is pending
\* and the frame stack, with every working list and every program counter, is
\* the one before the call, as is everything else a later call reads; only the
\* record of inputs and results grows.  Hence a valid call made after any
\* number of invalid ones starts from the state the first invalid call found.
C21_InputErrorKeepsState ==
    [][(Finishes /\ Yielded \in InputErrors) =>
          /\ CallStep
          /\ choice # NullRef /\ choice' = choice
          /\ stack' = stack
          /\ pc = "idle" /\ pc' = "idle"
          /\ UNCHANGED <<prog, generated, lastExecuted, output, pending,
                         issuer, parked, overlaps>>]_vars

\* C21, on scenario S2: whatever number of invalid calls precedes it, the
\* valid answer to the choice yields what it yields when it is given at once
\* (the module is entered again from its start, so the same Options).
C21_ValidCallAfterInvalid ==
    (prog = "S2" /\ Len(results) >= 2 /\ Len(Accepted(Tail(results))) >= 1) =>
        /\ results[1].kind = "output"
        /\ Accepted(Tail(results))[1] = results[1]

C21_ErrorsLeaveStateUnchanged ==
    /\ C21_InputErrorKeepsState
    /\ []C21_ValidCallAfterInvalid

\* An invalid answer to the choice of S2 was followed by a valid one, which
\* was served as the valid answer given at once is.
C21_Witness ==
    /\ prog = "S2"
    /\ Len(results) = 3
    /\ results[1].kind = "output"
    /\ results[2] \in InputErrors
    /\ inputs[3] = InputIndex(1)
    /\ results[3] = results[1]
    /\ choice # NullRef

\* ---------------------------------------------------------------------- C22
\* Some nextOutput call has returned null.
NullReturned == \E i \in 1..Len(results) : results[i] = ReturnedNull
FirstNull == CHOOSE i \in 1..Len(results) :
                 /\ results[i] = ReturnedNull
                 /\ \A j \in 1..(i - 1) : results[j] # ReturnedNull

\* C22: from the return of null on, the frame stack is empty, no call is
\* suspended in the Environment (or in the instruction loop), and every
\* result recorded after the first null is null.
C22_AfterNull ==
    NullReturned =>
        /\ stack = <<>>
        /\ pc = "idle"
        /\ pending = NullRef
        /\ \A j \in FirstNull..Len(results) : results[j] = ReturnedNull

\* C22: null is absorbing.  The call that returns null leaves the stack
\* empty; a call made after a null, whatever its input, returns null in its
\* first step, raising no error and awaiting neither modulePathEquals nor
\* loadModule; and no step puts a frame on the stack again.
C22_NullIsAbsorbing ==
    /\ []C22_AfterNull
    /\ [][/\ (Finishes /\ Yielded = ReturnedNull) => stack' = <<>>
          /\ (NullReturned /\ CallStep) =>
                /\ Finishes /\ Yielded = ReturnedNull
                /\ pc' = "idle"
          /\ NullReturned => stack' = <<>> /\ pc' \notin {"modulePathEquals", "loadModule"}]_vars

\* After an Output, a call returned null and the next one, given an option
\* index where no choice is pending, returned null again.
C22_Witness ==
    /\ Len(results) >= 3
    /\ results[1].kind = "output"
    /\ results[2] = ReturnedNull
    /\ results[3] = ReturnedNull
    /\ inputs[3] = InputIndex(2)
    /\ ItypeOf(lastExecuted) # "adv_end"
    /\ stack = <<>>

\* ---------------------------------------------------------------------- C23
InRange(frame) ==
    /\ 0 <= frame.programCounter
    /\ frame.programCounter <= Len(frame.instructions)

\* C23: the program counter of every frame on the stack lies between 0 and
\* the length of the frame's working list, both included.
C23_ProgramCounterInRange ==
    \A i \in 1..Len(stack) : InRange(stack[i])

\* A step that dispatches an instruction: it was fetched by getInstruction.
Dispatches == Len(callTrace') = Len(callTrace) + 1

\* C23: in every reachable state the program counter of every frame on the
\* stack is within 0..length of its working list, through advances,
\* insertions at the program counter, removals of disposable instructions and
\* jumps; and an instruction is fetched only from a frame whose program
\* counter is below that length, so that what getInstruction returns is an
\* instruction of the working list, never undefined.
C23_FetchWithinWorkingList ==
    /\ []C23_ProgramCounterInRange
    /\ [][Dispatches =>
             /\ stack # <<>>
             /\ Top(stack).programCounter >= 0
             /\ Top(stack).programCounter < Len(Top(stack).instructions)
             /\ lastExecuted' =
                   Top(stack).instructions[Top(stack).programCounter + 1]
             /\ ItypeOf(lastExecuted') # Undefined]_vars

\* The boundary case: a call was inserted at a program counter equal to the
\* length of the working list (the choice was the last instruction), fetched
\* and removed as disposable, which leaves the program counter at the length.
C23_Witness ==
    /\ prog = "Retry"
    /\ generated >= 1
    /\ \E i \in 1..Len(stack) :
          /\ stack[i].programCounter = Len(stack[i].instructions)
          /\ stack[i].programCounter > 0
          /\ \E r \in stack[i].fetchedOnce : r.isDisposable

====
